---------------------------- MODULE Spec2Model ----------------------------
(***************************************************************************)
(* Model of upload.py: one run of main(), from argument parsing to process *)
(* exit.  The SSH transport, the SCP transfer and the controlling terminal *)
(* are the environment: every call into them is one step whose outcome     *)
(* (exit status, exception, line typed) is chosen nondeterministically.    *)
(*                                                                         *)
(* Paths are sequences of components ("/srv/app" is <<"srv", "app">>), a   *)
(* remote command is the sequence of its shell words, and an input line is *)
(* the sequence of its whitespace-separated tokens.                        *)
(*                                                                         *)
(* Spec is the run of main().  SpecClose is one SSHConfig object whose     *)
(* methods a caller invokes in any order; SpecConc is two runs of the      *)
(* program inside upload_file at the same time, sharing the remote host's  *)
(* file system.                                                            *)
(***************************************************************************)
EXTENDS Integers, Sequences, FiniteSets, TLC

\* ------------------------------------------------------------------ bounds

\* Lines read by the interactive loop before the model stops reading.
MaxInputs == 2
\* Remote exit statuses range over 0..MaxExit.
MaxExit == 1
\* Methods a caller other than main() invokes on one SSHConfig object.
MaxApiCalls == 4

\* ------------------------------------------------------------ input domains

\* Python's None (also: an attribute the namespace does not have), in a slot
\* holding a path and in a slot holding a string.
NONE == <<"<None>">>
NoneStr == "<None>"

Hostnames == {NoneStr, "", "host"}
Ports == {0, 22}
Usernames == {"", "bob"}
Passwords == {"", "pw"}

\* The connection parameters a run is started with: all four usable, or one
\* of them missing, empty or zero.
Connections ==
    {k \in [name : Hostnames, port : Ports, username : Usernames, password : Passwords] :
        Cardinality({f \in {"name", "username", "password"} : k[f] \in {NoneStr, ""}})
            + (IF k.port = 0 THEN 1 ELSE 0) <= 1}

LocalExisting == <<"home", "a", "run.sh">>
LocalMissing == <<"tmp", "nonexistent.txt">>
RemoteFile == <<"srv", "app", "run.sh">>
RemoteDir == <<"srv", "app", "bin">>

\* The files present on the invoking machine (os.path.exists).
LocalFiles == {LocalExisting}

ExitStatuses == 0..MaxExit

\* Subcommands argparse accepts in one-shot mode (NONE: no subcommand).
CliCommands == {NoneStr, "check_sudo", "create_dir", "upload", "dir", "exit"}

HelpWords == {"help", "h", "-h", "--help"}

\* ------------------------------------------------------------------- state

VARIABLES
    pc,        \* the statement main() is at
    cli,       \* the namespace get_args() returned
    ssh,       \* the SSHConfig object (its _ssh_client is 0 for None)
    connects,  \* every paramiko client.connect() invocation, in order
    closes,    \* the clients client.close() was invoked on, in order
    args,      \* the Command Invocation handed to execute_command
    frame,     \* local variables of the running operation
    calls,     \* every execute_command invocation: the branch taken, the
               \* arguments its operation was entered with, and the outcome
    remote,    \* every SCP transfer and remote command issued, in order
    diag,      \* every diagnostic emitted (logger and print) and every
               \* argument prompt shown, in order
    reads,     \* lines consumed by the interactive loop
    cmd_input, \* the line the running loop iteration read (NONE: none)
    prompted,  \* the argument prompts shown since the running loop iteration
               \* (in one-shot mode: the command) began, in order
    stdin,     \* the terminal: "open", or "eof" once the stream has ended
    api,       \* the methods a caller other than main() has invoked on the
               \* SSHConfig object, in order
    up,        \* concurrent runs of the program: each run's upload_file frame
    fs         \* the remote host's files: the local file whose bytes a path
               \* holds (NONE: no such file)

vars == <<pc, cli, ssh, connects, closes, args, frame, calls, remote, diag, reads,
          cmd_input, prompted, stdin, api, up, fs>>

\* The state that only the specifications other than the run of main() use.
aside == <<api, up, fs>>

\* ----------------------------------------------------------------- helpers

\* Python truthiness: None and the empty string are false.
Falsy(x) == x = NoneStr \/ x = ""
FalsyPath(p) == p = NONE \/ p = <<>>

\* os.path.basename
basename(p) == IF Len(p) = 0 THEN "" ELSE p[Len(p)]

\* Mutant: every local path is taken to exist.
exists_always(p) == TRUE

\* os.path.exists
exists(p) == p \in LocalFiles

\* One diagnostic: a logger call (level, format string) or a print, emitted
\* during execute_command invocation number c (0: outside any).
LogN(level, msg, c) == [level |-> level, msg |-> msg, call |-> c]
Running == Len(calls) > 0 /\ calls[Len(calls)].result = "running"
Log(level, msg) == LogN(level, msg, IF Running THEN Len(calls) ELSE 0)

NoArgs == [command |-> NoneStr, password |-> NoneStr, dir_path |-> NONE,
           local_path |-> NONE, remote_path |-> NONE]

NoFrame == [remote_dir |-> NONE, local_file_path |-> NONE,
            remote_file_path |-> NONE, temp_remote_path |-> NONE]

\* The concurrent runs of the program, and a run that has not entered
\* upload_file.
Uploaders == {"run1", "run2"}
NoUpload == [pc |-> "idle", local_file_path |-> NONE, remote_file_path |-> NONE,
             temp_remote_path |-> NONE, moved |-> NONE, failed |-> "none"]

NoSSH == [created |-> FALSE, hostname |-> NoneStr, port |-> 0, username |-> NoneStr,
          password |-> NoneStr, ssh_client |-> 0]

\* ------------------------------------------------------------- SSHConfig

\* Mutant: the port is not part of the validation.
valid_details_noport(s) ==
    ~Falsy(s.hostname) /\ ~Falsy(s.username) /\ ~Falsy(s.password)

\* SSHConfig._valid_details
valid_details(s) ==
    ~Falsy(s.hostname) /\ s.port # 0 /\ ~Falsy(s.username) /\ ~Falsy(s.password)

\* SSHConfig.is_connected: a client exists, and its transport is active
\* (not closed) and authenticated.
is_connected(s, cs, cl) ==
    /\ s.ssh_client # 0
    /\ cs[s.ssh_client].ok
    /\ \A i \in 1..Len(cl) : cl[i] # s.ssh_client

\* One client.connect(hostname, port, username, password) invocation.
ConnectCall(s, ok) ==
    [hostname |-> s.hostname, port |-> s.port, username |-> s.username,
     password |-> s.password, ok |-> ok]

\* SSHConfig.connect with the transport answering ok (TRUE) or raising:
\* the object, the connect log and the diagnostics afterwards.
connect(s, cs, d, ok) ==
    IF valid_details(s)
    THEN [ssh |-> IF ok THEN [s EXCEPT !.ssh_client = Len(cs) + 1] ELSE s,
          connects |-> Append(cs, ConnectCall(s, ok)),
          diag |-> IF ok THEN Append(d, Log("info", "Successfully created SSH client"))
                         ELSE d,
          raised |-> ~ok]
    ELSE [ssh |-> s, connects |-> cs, diag |-> d, raised |-> FALSE]

\* ------------------------------------------------------------------ main

Init ==
    /\ pc = "get_args"
    /\ cmd_input = NONE
    /\ prompted = <<>>
    /\ stdin = "open"
    /\ api = <<>>
    /\ up = [u \in Uploaders |-> NoUpload]
    /\ fs = {}
    /\ cli = [name |-> NoneStr, port |-> 0, username |-> NoneStr,
              password |-> NoneStr, interactive |-> FALSE, command |-> NoneStr,
              dir_path |-> NONE,
              local_path |-> NONE, remote_path |-> NONE]
    /\ ssh = NoSSH
    /\ connects = <<>>
    /\ closes = <<>>
    /\ args = NoArgs
    /\ frame = NoFrame
    /\ calls = <<>>
    /\ remote = <<>>
    /\ diag = <<>>
    /\ reads = 0

\* The positional arguments argparse can bind for a subcommand.
CliPositionals(c) ==
    IF c \in {"create_dir", "dir"}
    THEN {[dir_path |-> d, local_path |-> NONE, remote_path |-> NONE] :
              d \in {NONE, RemoteDir}}
    ELSE IF c = "upload"
    THEN {[dir_path |-> NONE, local_path |-> NONE, remote_path |-> NONE]}
         \cup {[dir_path |-> NONE, local_path |-> l, remote_path |-> r] :
                   l \in {LocalExisting, LocalMissing}, r \in {NONE, RemoteFile}}
    ELSE {[dir_path |-> NONE, local_path |-> NONE, remote_path |-> NONE]}

\* get_args(): the command line, with defaults from the environment.
GetArgs ==
    /\ pc = "get_args"
    /\ \E k \in Connections, i \in BOOLEAN, c \in CliCommands :
         \E pos \in CliPositionals(c) :
           /\ i => c \in {NoneStr, "exit"}
           /\ cli' = [name |-> k.name, port |-> k.port, username |-> k.username,
                      password |-> k.password, interactive |-> i, command |-> c, dir_path |-> pos.dir_path,
                      local_path |-> pos.local_path, remote_path |-> pos.remote_path]
    /\ pc' = "main_448"
    /\ UNCHANGED <<ssh, connects, closes, args, frame, calls, remote, diag, reads, cmd_input, prompted,
                   stdin>>
    /\ UNCHANGED aside

\* Mutant: the help-only return is taken for the interactive flag instead.
no_command_interactive(c) == Falsy(c.command) /\ c.interactive

\* main, line 448: the test guarding the help-only return.
no_command(c) == Falsy(c.command) /\ ~c.interactive

\* main, line 448: no command and not interactive shows the help and returns.
MainNoCommand ==
    /\ pc = "main_448"
    /\ IF no_command(cli)
       THEN /\ diag' = Append(diag, Log("print", "help_text"))
            /\ pc' = "exit0"
       ELSE /\ diag' = diag
            /\ pc' = "main_452"
    /\ UNCHANGED <<cli, ssh, connects, closes, args, frame, calls, remote, reads, cmd_input, prompted,
                   stdin>>
    /\ UNCHANGED aside

\* SSHConfig.__init__ (main, line 452).  A connect() that raises propagates
\* out of the constructor and out of main.
SSHConfigInit ==
    /\ pc = "main_452"
    /\ LET s0 == [created |-> TRUE, hostname |-> cli.name, port |-> cli.port,
                  username |-> cli.username, password |-> cli.password,
                  ssh_client |-> 0]
       IN IF valid_details(s0)
          THEN \E ok \in BOOLEAN :
                 LET r == connect(s0, connects, diag, ok)
                 IN /\ ssh' = r.ssh
                    /\ connects' = r.connects
                    /\ IF r.raised
                       THEN /\ diag' = Append(r.diag, Log("traceback", "connect"))
                            /\ pc' = "crashed"
                       ELSE /\ diag' = Append(r.diag,
                                  IF is_connected(r.ssh, r.connects, closes)
                                  THEN Log("info", "Successfully connected to %s")
                                  ELSE Log("error", "Failed to connect to %s"))
                            /\ pc' = "main_453"
          ELSE /\ ssh' = s0
               /\ connects' = connects
               /\ diag' = Append(diag, Log("error", "Invalid SSH configuration details"))
               /\ pc' = "main_453"
    /\ UNCHANGED <<cli, closes, args, frame, calls, remote, reads, cmd_input, prompted,
                   stdin>>
    /\ UNCHANGED aside

\* main, lines 453-458: ssh.connect(), then the mode is chosen.
MainConnect ==
    /\ pc = "main_453"
    /\ \E ok \in BOOLEAN :
         LET r == connect(ssh, connects, diag, ok)
         IN /\ (~valid_details(ssh) => ok)
            /\ ssh' = r.ssh
            /\ connects' = r.connects
            /\ IF r.raised
               THEN /\ diag' = Append(r.diag, Log("traceback", "connect"))
                    /\ pc' = "crashed"
                    /\ args' = args
               ELSE /\ diag' = IF cli.interactive
                               THEN Append(r.diag, Log("print", "Interactive mode"))
                               ELSE r.diag
                    /\ pc' = IF cli.interactive THEN "prompt" ELSE "exec"
                    /\ args' = IF cli.interactive THEN args
                               ELSE [command |-> cli.command, password |-> cli.password,
                                     dir_path |-> cli.dir_path,
                                     local_path |-> cli.local_path,
                                     remote_path |-> cli.remote_path]
    /\ UNCHANGED <<cli, closes, frame, calls, remote, reads, cmd_input, prompted,
                   stdin>>
    /\ UNCHANGED aside

\* SSHConfig.close (main, line 460), then main returns.
close(s, cl) == IF s.ssh_client # 0 THEN Append(cl, s.ssh_client) ELSE cl

MainClose ==
    /\ pc = "main_460"
    /\ closes' = close(ssh, closes)
    /\ diag' = IF ssh.ssh_client # 0
               THEN Append(diag, Log("info", "SSH session closed"))
               ELSE diag
    /\ pc' = "exit0"
    /\ UNCHANGED <<cli, ssh, connects, args, frame, calls, remote, reads, cmd_input, prompted,
                   stdin>>
    /\ UNCHANGED aside

\* ------------------------------------------------- control-flow helpers

\* Where control goes when execute_command returns: the loop ignores the
\* returned value (line 434), main closes the session (line 460).
AfterCommand == IF cli.interactive THEN "prompt" ELSE "main_460"

\* Mutant: the loop leaves when execute_command returns False.
after_return_honoured(ret) ==
    IF cli.interactive /\ ret = "False" THEN "main_460" ELSE AfterCommand

\* Where control goes when execute_command has returned ret: both callers
\* discard the value (lines 434 and 458).
after_return(ret) == AfterCommand

\* Mutant: the loop has no handlers, an exception leaves main.
AfterRaise_unhandled == "crashed"

\* Where control goes when an exception leaves the running statement: the
\* loop's handlers (lines 436-439) or, in one-shot mode, out of main.
AfterRaise == IF cli.interactive THEN "prompt" ELSE "crashed"

\* The diagnostics after exception exc left the running statement.
Caught(d, exc) ==
    IF cli.interactive
    THEN IF exc = "KeyboardInterrupt"
         THEN Append(d, Log("print", "Keyboard Interrupt. Type 'exit' to quit."))
         ELSE Append(d, Log("print", "Error: %s"))
    ELSE Append(d, Log("traceback", exc))

\* The invocation log with the running invocation ended.
Finish(cl, result) ==
    IF Len(cl) > 0 /\ cl[Len(cl)].result = "running"
    THEN [cl EXCEPT ![Len(cl)].result = result]
    ELSE cl

\* What input() can do: return the stripped line typed, or raise.
InputExceptions == {"KeyboardInterrupt", "EOFError"}

\* The exceptions input() can raise with the terminal in state st: a stream
\* that has ended has nothing to wait for and raises EOFError on every read.
Raisable(st) == IF st = "eof" THEN {"EOFError"} ELSE InputExceptions

\* The terminal after input() raised exc: an end of input either is final
\* (a pipe or a file ran out) or is not (Ctrl-D typed at a terminal).
AfterInputRaise(st, exc) == IF exc = "EOFError" THEN {st, "eof"} ELSE {st}


\* ------------------------------------------------------ interactive_mode

\* The lines typed at the "upload> " prompt, as token sequences.
InputLines ==
    { <<>>, <<"exit">>, <<"help">>, <<"exit", <<"now">>>>, <<"check_sudo">>,
      <<"dir">>, <<"dir", RemoteDir>>, <<"create_dir">>, <<"create_dir", RemoteDir>>,
      <<"upload">>, <<"upload", LocalExisting>>, <<"upload", LocalMissing, RemoteFile>>,
      <<"upload", LocalExisting, RemoteFile>>, <<"bogus">>, <<"help", <<"me">>>> }

\* Mutant: the loop is left on every line that starts with exit.
exit_line_first_token(line) == line[1] = "exit"

\* interactive_mode, line 387: the whole stripped line is compared.
exit_line(line) == Len(line) = 1 /\ line[1] = "exit"

\* interactive_mode, line 389.
help_line(line) == Len(line) = 1 /\ line[1] \in HelpWords

\* SimpleArgs as built by lines 402-432 up to the first nested prompt.
SimpleArgs(cmd, params) ==
    [command |-> cmd,
     password |-> cli.password,
     dir_path |-> IF cmd \in {"dir", "create_dir"} /\ Len(params) > 0
                  THEN params[1] ELSE NONE,
     local_path |-> IF cmd = "upload" /\ Len(params) > 0 THEN params[1] ELSE NONE,
     remote_path |-> IF cmd = "upload" /\ Len(params) >= 2 THEN params[2] ELSE NONE]

\* One iteration of the loop, lines 383-434, up to the first nested prompt
\* or the call of execute_command.
ReadInput ==
    /\ pc = "prompt"
    /\ reads < MaxInputs
    /\ reads' = reads + 1
    /\ \/ \E exc \in Raisable(stdin) :
            /\ stdin' \in AfterInputRaise(stdin, exc)
            /\ diag' = Caught(diag, exc)
            /\ pc' = AfterRaise
            /\ args' = args
            /\ cmd_input' = NONE
            /\ prompted' = <<>>
       \/ /\ stdin = "open"
          /\ stdin' = stdin
          /\ \E line \in InputLines :
               IF Len(line) = 0
               THEN /\ pc' = "prompt"
                    /\ cmd_input' = NONE
                    /\ prompted' = <<>>
                    /\ UNCHANGED <<diag, args>>
               ELSE IF exit_line(line)
               THEN /\ pc' = "main_460"
                    /\ cmd_input' = line
                    /\ prompted' = <<>>
                    /\ UNCHANGED <<diag, args>>
               ELSE IF help_line(line)
               THEN /\ diag' = Append(diag, Log("print", "help_text"))
                    /\ pc' = "prompt"
                    /\ cmd_input' = NONE
                    /\ prompted' = <<>>
                    /\ args' = args
               ELSE /\ args' = SimpleArgs(Head(line), Tail(line))
                    /\ cmd_input' = line
                    /\ prompted' = <<>>
                    /\ diag' = diag
                    /\ pc' = IF Head(line) = "upload" /\ Len(line) = 1 THEN "sel_file"
                             ELSE IF Head(line) = "upload" /\ Len(line) = 2
                             THEN "ask_remote_i"
                             ELSE "exec"
    /\ UNCHANGED <<cli, ssh, connects, closes, frame, calls, remote>>
    /\ UNCHANGED aside

\* cli_file_selector() (line 418): a file of the local tree, None when the
\* user quits or nothing is listed, or an exception from its prompt.
SelectFile ==
    /\ pc = "sel_file"
    /\ \/ \E exc \in Raisable(stdin) :
            /\ stdin' \in AfterInputRaise(stdin, exc)
            /\ diag' = Caught(diag, exc)
            /\ pc' = AfterRaise
            /\ args' = NoArgs
            /\ cmd_input' = NONE
            /\ prompted' = <<>>
       \/ /\ stdin = "open"
          /\ \E f \in LocalFiles \cup {NONE} :
               /\ args' = [args EXCEPT !.local_path = f]
               /\ prompted' = Append(prompted, "Select a file/directory by number")
               /\ pc' = "ask_remote_i"
               /\ UNCHANGED <<diag, cmd_input, stdin>>
       \/ /\ args' = [args EXCEPT !.local_path = NONE]
          /\ pc' = "ask_remote_i"
          /\ UNCHANGED <<diag, cmd_input, prompted, stdin>>
    /\ UNCHANGED <<cli, ssh, connects, closes, frame, calls, remote, reads>>
    /\ UNCHANGED aside

\* input("Enter remote file path: ") of the loop (line 426).
AskRemoteInteractive ==
    /\ pc = "ask_remote_i"
    /\ \/ \E exc \in Raisable(stdin) :
            /\ stdin' \in AfterInputRaise(stdin, exc)
            /\ diag' = Caught(diag, exc)
            /\ pc' = AfterRaise
            /\ args' = NoArgs
            /\ cmd_input' = NONE
            /\ prompted' = <<>>
       \/ /\ stdin = "open"
          /\ \E r \in {RemoteFile} :
               /\ args' = [args EXCEPT !.remote_path = r]
               /\ prompted' = Append(prompted, "Enter remote file path: ")
               /\ pc' = "exec"
               /\ UNCHANGED <<diag, cmd_input, stdin>>
    /\ UNCHANGED <<cli, ssh, connects, closes, frame, calls, remote, reads>>
    /\ UNCHANGED aside

\* -------------------------------------------------------- remote calls

\* The words of the remote commands, as the f-strings build them.
cmd_sudo_l == <<"sudo", "-l">>
cmd_check(dir) == <<"sudo", "-S", "ls", dir>>
cmd_mkdir(pw, dir) == <<"echo", pw, "|", "sudo", "-S", "mkdir", "-p", dir>>
cmd_mv(pw, tmp, dst) == <<"echo", pw, "|", "sudo", "-S", "mv", tmp, dst>>
cmd_sed(pw, dst) == <<"echo", pw, "|", "sudo", "-S", "sed", "-i", "s/\\r$//", dst>>
cmd_chown(pw, dst) == <<"echo", pw, "|", "sudo", "-S", "chown", "mysite:mysite", dst>>
cmd_chmod(pw, dst) == <<"echo", pw, "|", "sudo", "-S", "chmod", "+x", dst>>
\* Mutant: the listing is run through sudo like the other commands.
cmd_ls_sudo(dir) == <<"sudo", "-S", "ls", "-lh", dir>>

cmd_ls(dir) == <<"ls", "-lh", dir>>
scp_put(src, dst) == <<"scp", src, dst>>

\* What ssh_client.exec_command(...) followed by recv_exit_status() can do
\* on client c: None has no such attribute; a client returns an exit status
\* or raises when the transport fails.
ExecOutcomes(c) ==
    IF c = 0
    THEN {[exc |-> "AttributeError", status |-> -1]}
    ELSE {[exc |-> "none", status |-> n] : n \in ExitStatuses}
         \cup {[exc |-> "SSHException", status |-> -1]}

\* What SCPClient(ssh_client.get_transport()).put(...) can do on client c.
ScpOutcomes(c) ==
    IF c = 0
    THEN {[exc |-> "AttributeError", status |-> -1]}
    ELSE {[exc |-> "none", status |-> 0], [exc |-> "SCPException", status |-> -1],
          [exc |-> "SSHException", status |-> -1]}

\* The remote log after a call with outcome out: a call on None reaches no
\* host.
Issued(rem, cmd, out) ==
    IF out.exc = "AttributeError"
    THEN rem
    ELSE Append(rem, [cmd |-> cmd, exc |-> out.exc, status |-> out.status,
                      call |-> Len(calls)])

\* The running operation returns value to execute_command, which returns
\* True (line 319); the invocation's namespace and locals are dead then.
ReturnFrom(cl, d, value) ==
    /\ diag' = d
    /\ calls' = [cl EXCEPT ![Len(cl)] =
                    [@ EXCEPT !.result = "True", !.value = value]]
    /\ pc' = after_return("True")
    /\ frame' = NoFrame
    /\ args' = NoArgs
    /\ cmd_input' = NONE
    /\ prompted' = <<>>

Return(d, value) == ReturnFrom(calls, d, value)

\* The invocation log with the arguments the operation is entered with.
Entered(cl, argv) == [cl EXCEPT ![Len(cl)].argv = argv]

\* Exception exc leaves the running operation and execute_command.
RaiseOut(exc) ==
    /\ diag' = Caught(diag, exc)
    /\ calls' = Finish(calls, "raised")
    /\ pc' = AfterRaise
    /\ frame' = NoFrame
    /\ args' = NoArgs
    /\ cmd_input' = NONE
    /\ prompted' = <<>>

\* The running operation goes on to its next remote call.
Goto(d, next) ==
    /\ diag' = d
    /\ pc' = next
    /\ UNCHANGED <<calls, frame, args, cmd_input, prompted>>

\* ------------------------------------------------- check_sudo_privileges

\* Mutant: any exit status counts as having the privilege.
sudo_result_any(status) == "True"

\* check_sudo_privileges, line 112.
sudo_result(status) == IF status = 0 THEN "True" ELSE "False"

CheckSudo ==
    /\ pc = "check_sudo"
    /\ \E out \in ExecOutcomes(ssh.ssh_client) :
         /\ remote' = Issued(remote, cmd_sudo_l, out)
         /\ IF out.exc # "none"
            THEN RaiseOut(out.exc)
            ELSE IF sudo_result(out.status) = "True"
            THEN Return(Append(diag, Log("info", "User has sudo privileges")), "True")
            ELSE Return(Append(diag,
                     Log("error", "User does not have sudo privileges: %s")), "False")
    /\ UNCHANGED <<cli, ssh, connects, closes, reads, stdin>>
    /\ UNCHANGED aside

\* ----------------------------------------------- create_remote_directory

\* Mutant: the creation is attempted whatever the probe says.
after_probe_always_mkdir(status) == "mkdir"

\* Mutant: the creation is never attempted.
after_probe_never_mkdir(status) == "return"

\* create_remote_directory, lines 141-145: after the existence probe.
after_probe(status) == IF status = 0 THEN "return" ELSE "mkdir"

\* create_remote_directory, lines 130-145.
CreateDirProbe ==
    /\ pc = "probe"
    /\ \E out \in ExecOutcomes(ssh.ssh_client) :
         /\ remote' = Issued(remote, cmd_check(frame.remote_dir), out)
         /\ IF out.exc # "none"
            THEN RaiseOut(out.exc)
            ELSE IF after_probe(out.status) = "return"
            THEN Return(Append(diag,
                     Log("info", "Remote directory %s already exists")), "None")
            ELSE Goto(Append(diag, Log("warning",
                     "Remote directory %s does not exist or cannot be accessed")),
                     after_probe(out.status))
    /\ UNCHANGED <<cli, ssh, connects, closes, reads, stdin>>
    /\ UNCHANGED aside

\* create_remote_directory, lines 147-161.
CreateDirMkdir ==
    /\ pc = "mkdir"
    /\ \E out \in ExecOutcomes(ssh.ssh_client) :
         /\ remote' = Issued(remote, cmd_mkdir(args.password, frame.remote_dir), out)
         /\ IF out.exc # "none"
            THEN RaiseOut(out.exc)
            ELSE IF out.status = 0
            THEN Return(Append(diag,
                     Log("info", "Successfully created remote directory %s")), "None")
            ELSE Return(Append(diag,
                     Log("error", "Failed to create remote directory %s: %s")), "None")
    /\ UNCHANGED <<cli, ssh, connects, closes, reads, stdin>>
    /\ UNCHANGED aside

\* --------------------------------------------------------- list_directory

\* list_directory, lines 229-235.
ListDirectory ==
    /\ pc = "ls"
    /\ \E out \in ExecOutcomes(ssh.ssh_client) :
         /\ remote' = Issued(remote, cmd_ls(frame.remote_dir), out)
         /\ IF out.exc # "none"
            THEN RaiseOut(out.exc)
            ELSE IF out.status = 0
            THEN Return(Append(diag, Log("info", "Directory contents of %s:\n%s")),
                        "None")
            ELSE Return(Append(diag, Log("error", "Failed to list directory %s: %s")),
                        "None")
    /\ UNCHANGED <<cli, ssh, connects, closes, reads, stdin>>
    /\ UNCHANGED aside

\* ------------------------------------------------------------ upload_file

\* upload_file, lines 179-184: SCPException is caught and ends the upload,
\* any other exception propagates.
after_transfer(exc) ==
    IF exc = "none" THEN "mv" ELSE IF exc = "SCPException" THEN "return" ELSE "raise"

\* Mutant: a failed mv does not end the upload.
after_mv_goes_on(status) == "sed"

\* upload_file, lines 189-193.
after_mv(status) == IF status = 0 THEN "sed" ELSE "return"

\* Mutant: a failed sed is retried.
after_sed_retries(status) == IF status = 0 THEN "chown" ELSE "sed"

\* upload_file, lines 199-203.
after_sed(status) == IF status = 0 THEN "chown" ELSE "return"

\* upload_file, lines 209-211.
after_chown(status) == IF status # 0 THEN "return" ELSE "chmod"

\* upload_file, lines 216-218: the function ends either way.
after_chmod(status) == "return"

\* One privileged remote command of upload_file: issue cmd, wait for its
\* exit status, log okLog on status 0 and failLog otherwise, go on to
\* next[status].
ExecStep(cmd, next, okLog, failLog) ==
    \E out \in ExecOutcomes(ssh.ssh_client) :
      /\ remote' = Issued(remote, cmd, out)
      /\ IF out.exc # "none"
         THEN RaiseOut(out.exc)
         ELSE LET d == diag \o (IF out.status = 0 THEN okLog ELSE failLog)
              IN IF next[out.status] = "return"
                 THEN Return(d, "None")
                 ELSE Goto(d, next[out.status])

\* upload_file, lines 178-184.
UploadTransfer ==
    /\ pc = "transfer"
    /\ \E out \in ScpOutcomes(ssh.ssh_client) :
         /\ remote' = Issued(remote,
                scp_put(frame.local_file_path, frame.temp_remote_path), out)
         /\ IF after_transfer(out.exc) = "raise"
            THEN RaiseOut(out.exc)
            ELSE LET d == IF out.exc = "SCPException"
                          THEN Append(diag, Log("error", "SCP transfer failed for %s: %s"))
                          ELSE diag
                 IN IF after_transfer(out.exc) = "return"
                    THEN Return(d, "None")
                    ELSE Goto(d, after_transfer(out.exc))
    /\ UNCHANGED <<cli, ssh, connects, closes, reads, stdin>>
    /\ UNCHANGED aside

\* upload_file, lines 186-193.
UploadMv ==
    /\ pc = "mv"
    /\ ExecStep(cmd_mv(args.password, frame.temp_remote_path, frame.remote_file_path),
                [st \in ExitStatuses |-> after_mv(st)],
                <<Log("info", "Successfully uploaded %s to %s")>>,
                <<Log("error", "Failed to move %s to %s: %s")>>)
    /\ UNCHANGED <<cli, ssh, connects, closes, reads, stdin>>
    /\ UNCHANGED aside

\* upload_file, lines 196-203.
UploadSed ==
    /\ pc = "sed"
    /\ ExecStep(cmd_sed(args.password, frame.remote_file_path),
                [st \in ExitStatuses |-> after_sed(st)],
                <<Log("info", "Successfully converted line endings of %s to LF")>>,
                <<Log("error", "Failed to convert line endings of %s to LF: %s")>>)
    /\ UNCHANGED <<cli, ssh, connects, closes, reads, stdin>>
    /\ UNCHANGED aside

\* upload_file, lines 206-211.
UploadChown ==
    /\ pc = "chown"
    /\ ExecStep(cmd_chown(args.password, frame.remote_file_path),
                [st \in ExitStatuses |-> after_chown(st)],
                <<>>,
                <<Log("error", "Failed to change ownership of %s to mysite:mysite: %s")>>)
    /\ UNCHANGED <<cli, ssh, connects, closes, reads, stdin>>
    /\ UNCHANGED aside

\* upload_file, lines 213-218.
UploadChmod ==
    /\ pc = "chmod"
    /\ ExecStep(cmd_chmod(args.password, frame.remote_file_path),
                [st \in ExitStatuses |-> after_chmod(st)],
                <<>>,
                <<Log("error", "Failed to make %s executable: %s")>>)
    /\ UNCHANGED <<cli, ssh, connects, closes, reads, stdin>>
    /\ UNCHANGED aside

\* -------------------------------------------------------- execute_command

\* Mutant: the exit branch is missing, so exit falls through to the else.
branch_without_exit(command) ==
    IF command \in {"check_sudo", "create_dir", "upload", "dir"} THEN command
    ELSE IF command \in HelpWords THEN "help"
    ELSE "unknown"

\* The branch of lines 301-318 a command name selects.
branch(command) ==
    IF command \in {"check_sudo", "create_dir", "upload", "dir"} THEN command
    ELSE IF command \in HelpWords THEN "help"
    ELSE IF command = "exit" THEN "exit"
    ELSE "unknown"

\* execute_command, lines 301-319: the branch is chosen; help, exit and an
\* unknown name are done at once.
ExecuteCommand ==
    /\ pc = "exec"
    /\ LET b == branch(args.command)
           c == Len(calls) + 1
           entry(res) == [command |-> args.command, op |-> b, result |-> res,
                         value |-> "-", argv |-> <<>>]
       IN IF b = "help"
          THEN /\ calls' = Append(calls, entry("True"))
               /\ diag' = Append(diag, LogN("print", "help_text", c))
               /\ pc' = after_return("True")
               /\ args' = NoArgs
               /\ cmd_input' = NONE
               /\ prompted' = <<>>
          ELSE IF b = "exit"
          THEN /\ calls' = Append(calls, entry("False"))
               /\ diag' = diag
               /\ pc' = after_return("False")
               /\ args' = NoArgs
               /\ cmd_input' = NONE
               /\ prompted' = <<>>
          ELSE IF b = "unknown"
          THEN /\ calls' = Append(calls, entry("True"))
               /\ diag' = Append(diag, LogN("print",
                              "Unknown command. Type 'help' for available commands.", c))
               /\ pc' = after_return("True")
               /\ args' = NoArgs
               /\ cmd_input' = NONE
               /\ prompted' = <<>>
          ELSE /\ calls' = Append(calls, entry("running"))
               /\ diag' = diag
               /\ pc' = IF b = "create_dir" THEN "line_304"
                        ELSE IF b = "upload" THEN "line_307"
                        ELSE IF b = "dir" THEN "line_311"
                        ELSE "check_sudo"
               /\ UNCHANGED <<args, cmd_input, prompted>>
    /\ UNCHANGED <<cli, ssh, connects, closes, frame, remote, reads, stdin>>
    /\ UNCHANGED aside

\* Mutant: the attribute is used as it is, missing or not.
ArgOrInput_as_given(v, answers) == {v}

\* getattr(args, name, None) or input(...).strip(): the values the
\* expression can have when the attribute holds v and the terminal can
\* answer any of answers; the prompt is only reached when v is false.
ArgOrInput(v, answers) == IF FalsyPath(v) THEN answers ELSE {v}

\* input(msg) of a getattr(...) or input(msg) expression raises when the
\* attribute holding v is missing: the exception leaves execute_command.
PromptRaises(v, msg) ==
    /\ FalsyPath(v)
    /\ \E exc \in Raisable(stdin) :
         /\ stdin' \in AfterInputRaise(stdin, exc)
         /\ diag' = Caught(diag, exc)
         /\ calls' = Finish(calls, "raised")
         /\ pc' = AfterRaise
         /\ frame' = NoFrame
         /\ args' = NoArgs
         /\ cmd_input' = NONE
         /\ prompted' = <<>>

\* The expression has a value: the attribute, or a line the terminal gave
\* at the prompt msg.
PromptAnswers(v, msg) ==
    /\ FalsyPath(v) => stdin = "open"
    /\ stdin' = stdin
    /\ prompted' = IF FalsyPath(v) THEN Append(prompted, msg) ELSE prompted

\* temp_remote_path of upload_file, line 178.
\* Mutant: the staging path keeps the whole local path.
temp_remote_path_whole(l) == <<"tmp">> \o l

temp_remote_path(l) == <<"tmp", basename(l)>>

\* execute_command, lines 304-305, into create_remote_directory, line 129.
CreateDirArg ==
    /\ pc = "line_304"
    /\ \/ PromptRaises(args.dir_path, "Enter remote directory path: ")
       \/ /\ PromptAnswers(args.dir_path, "Enter remote directory path: ")
          /\ \E d \in ArgOrInput(args.dir_path, {RemoteDir}) :
               /\ frame' = [frame EXCEPT !.remote_dir = d]
               /\ diag' = Append(diag, Log("info", "Creating remote directory: %s"))
               /\ pc' = "probe"
               /\ calls' = Entered(calls, <<d>>)
               /\ UNCHANGED <<args, cmd_input>>
    /\ UNCHANGED <<cli, ssh, connects, closes, remote, reads>>
    /\ UNCHANGED aside

\* execute_command, lines 311-312.
ListDirArg ==
    /\ pc = "line_311"
    /\ \/ PromptRaises(args.dir_path, "Enter remote directory path: ")
       \/ /\ PromptAnswers(args.dir_path, "Enter remote directory path: ")
          /\ \E d \in ArgOrInput(args.dir_path, {RemoteDir}) :
               /\ frame' = [frame EXCEPT !.remote_dir = d]
               /\ diag' = diag
               /\ pc' = "ls"
               /\ calls' = Entered(calls, <<d>>)
               /\ UNCHANGED <<args, cmd_input>>
    /\ UNCHANGED <<cli, ssh, connects, closes, remote, reads>>
    /\ UNCHANGED aside

\* execute_command, line 307.
UploadLocalArg ==
    /\ pc = "line_307"
    /\ \/ PromptRaises(args.local_path, "Enter local file path: ")
       \/ /\ PromptAnswers(args.local_path, "Enter local file path: ")
          /\ \E l \in ArgOrInput(args.local_path, {LocalExisting, LocalMissing, <<>>}) :
               /\ frame' = [frame EXCEPT !.local_file_path = l]
               /\ diag' = diag
               /\ pc' = "line_308"
               /\ UNCHANGED <<calls, args, cmd_input>>
    /\ UNCHANGED <<cli, ssh, connects, closes, remote, reads>>
    /\ UNCHANGED aside

\* execute_command, lines 308-309, into upload_file, lines 174-178.
UploadRemoteArg ==
    /\ pc = "line_308"
    /\ \/ PromptRaises(args.remote_path, "Enter remote file path: ")
       \/ /\ PromptAnswers(args.remote_path, "Enter remote file path: ")
          /\ \E r \in ArgOrInput(args.remote_path, {RemoteFile}) :
               LET d == diag
               IN IF ~exists(frame.local_file_path)
                  THEN ReturnFrom(Entered(calls, <<frame.local_file_path, r>>),
                           Append(d, Log("error", "Local file %s does not exist")),
                           "None")
                  ELSE /\ frame' = [frame EXCEPT
                                       !.remote_file_path = r,
                                       !.temp_remote_path =
                                           temp_remote_path(frame.local_file_path)]
                       /\ diag' = d
                       /\ pc' = "transfer"
                       /\ calls' = Entered(calls, <<frame.local_file_path, r>>)
                       /\ UNCHANGED <<args, cmd_input>>
    /\ UNCHANGED <<cli, ssh, connects, closes, remote, reads>>
    /\ UNCHANGED aside

\* ------------------------------------- SSHConfig used by another caller

\* The state before any caller has done anything.
Untouched ==
    /\ cli = [name |-> NoneStr, port |-> 0, username |-> NoneStr,
              password |-> NoneStr, interactive |-> FALSE, command |-> NoneStr,
              dir_path |-> NONE, local_path |-> NONE, remote_path |-> NONE]
    /\ ssh = NoSSH
    /\ connects = <<>>
    /\ closes = <<>>
    /\ args = NoArgs
    /\ frame = NoFrame
    /\ calls = <<>>
    /\ remote = <<>>
    /\ diag = <<>>
    /\ reads = 0
    /\ cmd_input = NONE
    /\ prompted = <<>>
    /\ stdin = "open"
    /\ api = <<>>
    /\ up = [u \in Uploaders |-> NoUpload]
    /\ fs = {}

InitClose == pc = "new" /\ Untouched

\* One method invocation as the caller sees it.
ApiCall(method, raised) == [method |-> method, raised |-> raised]

\* SSHConfig(hostname, port, username, password), lines 37-51: the
\* constructor connects; an exception of the transport leaves it and no
\* object exists.
HandleNew ==
    /\ pc = "new"
    /\ \E k \in Connections :
         LET s0 == [created |-> TRUE, hostname |-> k.name, port |-> k.port,
                    username |-> k.username, password |-> k.password,
                    ssh_client |-> 0]
         IN IF valid_details(s0)
            THEN \E ok \in BOOLEAN :
                   LET r == connect(s0, connects, diag, ok)
                   IN /\ ssh' = IF r.raised THEN ssh ELSE r.ssh
                      /\ connects' = r.connects
                      /\ diag' = IF r.raised THEN r.diag
                                 ELSE Append(r.diag,
                                     IF is_connected(r.ssh, r.connects, closes)
                                     THEN Log("info", "Successfully connected to %s")
                                     ELSE Log("error", "Failed to connect to %s"))
                      /\ pc' = IF r.raised THEN "no_handle" ELSE "handle"
                      /\ api' = Append(api, ApiCall("__init__", r.raised))
            ELSE /\ ssh' = s0
                 /\ connects' = connects
                 /\ diag' = Append(diag, Log("error", "Invalid SSH configuration details"))
                 /\ pc' = "handle"
                 /\ api' = Append(api, ApiCall("__init__", FALSE))
    /\ UNCHANGED <<cli, closes, args, frame, calls, remote, reads, cmd_input, prompted,
                   stdin, up, fs>>

\* ssh.connect(), lines 53-61, called on the object.
HandleConnect ==
    /\ pc = "handle"
    /\ Len(api) < MaxApiCalls
    /\ \E ok \in BOOLEAN :
         LET r == connect(ssh, connects, diag, ok)
         IN /\ (~valid_details(ssh) => ok)
            /\ ssh' = r.ssh
            /\ connects' = r.connects
            /\ diag' = r.diag
            /\ api' = Append(api, ApiCall("connect", r.raised))
    /\ UNCHANGED <<pc, cli, closes, args, frame, calls, remote, reads, cmd_input,
                   prompted, stdin, up, fs>>

\* ssh.close(), lines 93-97, called on the object.
HandleClose ==
    /\ pc = "handle"
    /\ Len(api) < MaxApiCalls
    /\ closes' = close(ssh, closes)
    /\ diag' = IF ssh.ssh_client # 0
               THEN Append(diag, Log("info", "SSH session closed"))
               ELSE diag
    /\ api' = Append(api, ApiCall("close", FALSE))
    /\ UNCHANGED <<pc, cli, ssh, connects, args, frame, calls, remote, reads, cmd_input,
                   prompted, stdin, up, fs>>

NextClose ==
    \/ HandleNew
    \/ HandleConnect
    \/ HandleClose

\* ------------------------------------------- concurrent runs of upload

\* The local files and the targets the concurrent runs are started with.
ConcLocalFiles == {LocalExisting, <<"home", "b", "run.sh">>, <<"home", "b", "stop.sh">>}
ConcTargets == {RemoteFile, <<"srv", "web", "run.sh">>}

InitConc == pc = "concurrent" /\ Untouched

\* What the remote path p holds in the file system f.
Holds(f, p) == IF \E e \in f : e.path = p
               THEN (CHOOSE e \in f : e.path = p).bytes
               ELSE NONE

\* The file system with p written, and with p removed.
Written(f, p, bytes) == {e \in f : e.path # p} \cup {[path |-> p, bytes |-> bytes]}
Removed(f, p) == {e \in f : e.path # p}

\* A run ends its upload at step, having failed there or not.
UpDone(u, failed) == [up EXCEPT ![u].pc = "done", ![u].failed = failed]

\* upload_file, lines 174-178, in run u: the local file exists and the
\* staging path is derived from it.
UpEnter(u) ==
    /\ pc = "concurrent"
    /\ up[u].pc = "idle"
    /\ \E l \in ConcLocalFiles, r \in ConcTargets :
         up' = [up EXCEPT ![u] = [@ EXCEPT !.pc = "transfer",
                                           !.local_file_path = l,
                                           !.remote_file_path = r,
                                           !.temp_remote_path = temp_remote_path(l)]]
    /\ fs' = fs
    /\ UNCHANGED <<pc, cli, ssh, connects, closes, args, frame, calls, remote, diag,
                   reads, cmd_input, prompted, stdin, api>>

\* upload_file, lines 179-184, in run u: a completed put leaves the local
\* file's bytes at the staging path.
UpTransfer(u) ==
    /\ pc = "concurrent"
    /\ up[u].pc = "transfer"
    /\ \E out \in ScpOutcomes(1) :
         IF after_transfer(out.exc) = "mv"
         THEN /\ fs' = Written(fs, up[u].temp_remote_path, up[u].local_file_path)
              /\ up' = [up EXCEPT ![u].pc = "mv"]
         ELSE /\ fs' = fs
              /\ up' = UpDone(u, "scp")
    /\ UNCHANGED <<pc, cli, ssh, connects, closes, args, frame, calls, remote, diag,
                   reads, cmd_input, prompted, stdin, api>>

\* The exit statuses of the remote mv: it fails when its source is missing
\* and can fail for other reasons.
MvStatuses(f, src) ==
    IF Holds(f, src) = NONE THEN ExitStatuses \ {0} ELSE ExitStatuses

\* upload_file, lines 186-193, in run u: mv relocates whatever the staging
\* path holds to the run's final path.
UpMv(u) ==
    /\ pc = "concurrent"
    /\ up[u].pc = "mv"
    /\ \E st \in MvStatuses(fs, up[u].temp_remote_path) :
         LET staged == Holds(fs, up[u].temp_remote_path)
         IN IF st = 0
            THEN /\ fs' = Written(Removed(fs, up[u].temp_remote_path),
                                  up[u].remote_file_path, staged)
                 /\ up' = [up EXCEPT ![u].pc = after_mv(st), ![u].moved = staged]
            ELSE /\ fs' = fs
                 /\ up' = IF after_mv(st) = "return" THEN UpDone(u, "mv")
                          ELSE [up EXCEPT ![u].pc = after_mv(st)]
    /\ UNCHANGED <<pc, cli, ssh, connects, closes, args, frame, calls, remote, diag,
                   reads, cmd_input, prompted, stdin, api>>

\* upload_file, lines 196-218, in run u: sed, chown and chmod work on the
\* run's final path only.
UpFinish(u) ==
    /\ pc = "concurrent"
    /\ up[u].pc \in {"sed", "chown", "chmod"}
    /\ \E st \in ExitStatuses :
         LET next == IF up[u].pc = "sed" THEN after_sed(st)
                     ELSE IF up[u].pc = "chown" THEN after_chown(st)
                     ELSE after_chmod(st)
         IN up' = IF next = "return"
                  THEN UpDone(u, IF st = 0 THEN "none" ELSE up[u].pc)
                  ELSE [up EXCEPT ![u].pc = next]
    /\ fs' = fs
    /\ UNCHANGED <<pc, cli, ssh, connects, closes, args, frame, calls, remote, diag,
                   reads, cmd_input, prompted, stdin, api>>

NextConc ==
    \/ \E u \in Uploaders : UpEnter(u)
    \/ \E u \in Uploaders : UpTransfer(u)
    \/ \E u \in Uploaders : UpMv(u)
    \/ \E u \in Uploaders : UpFinish(u)

\* ---------------------------------------------------------- specification

Next ==
    \/ GetArgs
    \/ MainNoCommand
    \/ SSHConfigInit
    \/ MainConnect
    \/ MainClose
    \/ ReadInput
    \/ SelectFile
    \/ AskRemoteInteractive
    \/ ExecuteCommand
    \/ CreateDirArg
    \/ ListDirArg
    \/ UploadLocalArg
    \/ UploadRemoteArg
    \/ CheckSudo
    \/ CreateDirProbe
    \/ CreateDirMkdir
    \/ ListDirectory
    \/ UploadTransfer
    \/ UploadMv
    \/ UploadSed
    \/ UploadChown
    \/ UploadChmod

Spec == Init /\ [][Next]_vars

\* One SSHConfig object and a caller invoking its methods in any order.
SpecClose == InitClose /\ [][NextClose]_vars

\* Two runs of the program uploading to the same host at the same time.
SpecConc == InitConc /\ [][NextConc]_vars

\* --------------------------------------------------------------- typing

TypeOK ==
    /\ pc \in {"get_args", "main_448", "main_452", "main_453", "main_460", "exit0",
               "crashed", "prompt", "sel_file", "ask_remote_i", "exec", "line_304",
               "line_307", "line_308", "line_311", "check_sudo", "probe", "mkdir",
               "ls", "transfer", "mv", "sed", "chown", "chmod", "new", "handle",
               "no_handle", "concurrent"}
    /\ Len(api) <= MaxApiCalls
    /\ reads \in 0..MaxInputs
    /\ stdin \in {"open", "eof"}
    /\ cmd_input \in InputLines \cup {NONE}
    /\ Len(prompted) <= 3
    /\ ssh.ssh_client \in 0..Len(connects)
    /\ \A i \in 1..Len(calls) : calls[i].result \in {"running", "True", "False", "raised"}

\* ------------------------------------------------- reading the histories

\* The program a remote command runs, read off its words.
Verb(cmd) ==
    IF cmd[1] = "echo" THEN cmd[6]
    ELSE IF cmd[1] = "sudo" THEN (IF cmd[2] = "-l" THEN "sudo -l" ELSE "sudo " \o cmd[3])
    ELSE cmd[1]

\* A remote action that did not succeed.
Failed(e) == e.exc # "none" \/ e.status # 0

\* A remote action that failed the way upload_file handles: an SCP transfer
\* failure, or a non-zero exit status.
StepFailed(e) == e.exc = "SCPException" \/ (e.exc = "none" /\ e.status # 0)

\* The remote actions issued during invocation c, in order.
EntriesOf(c) == SelectSeq(remote, LAMBDA e : e.call = c)

VerbsOf(c) == [i \in 1..Len(EntriesOf(c)) |-> Verb(EntriesOf(c)[i].cmd)]

\* Invocation c emitted a diagnostic of this level and format.
Emitted(c, level, msg) ==
    \E i \in 1..Len(diag) :
        diag[i].call = c /\ diag[i].level = level /\ diag[i].msg = msg

IsPrefix(s, t) == Len(s) <= Len(t) /\ \A i \in 1..Len(s) : s[i] = t[i]

UploadSequence == <<"scp", "mv", "sed", "chown", "chmod">>

UploadCalls == {c \in 1..Len(calls) : calls[c].op = "upload"}
CreateDirCalls == {c \in 1..Len(calls) : calls[c].op = "create_dir"}

\* ------------------------------------------------------------------ claims

\* C1: short-circuit of upload_file.  Once a step of an upload has failed
\* (transfer failure, non-zero exit status, or an exception of the
\* transport), no later remote action belongs to that upload; and a mv that
\* exits non-zero after a successful transfer is followed by no sed, chown
\* or chmod and is reported as a failure to move.
C1_ShortCircuit ==
    \A i \in 1..Len(remote) :
        remote[i].call \in UploadCalls =>
            /\ Failed(remote[i]) =>
                   \A j \in (i + 1)..Len(remote) : remote[j].call # remote[i].call
            /\ (Verb(remote[i].cmd) = "mv" /\ StepFailed(remote[i])) =>
                   /\ VerbsOf(remote[i].call) = <<"scp", "mv">>
                   /\ Emitted(remote[i].call, "error", "Failed to move %s to %s: %s")

\* C1 witness: an upload whose transfer succeeded and whose mv exited
\* non-zero has returned.
C1_Witness ==
    \E c \in UploadCalls :
        /\ calls[c].result = "True"
        /\ Len(EntriesOf(c)) = 2
        /\ ~Failed(EntriesOf(c)[1])
        /\ StepFailed(EntriesOf(c)[2])

\* C2: outcome reporting of upload_file.  An upload whose five steps all
\* succeeded reports success, and an upload in which a step failed emits an
\* error diagnostic and does not emit the upload-success diagnostic.
C2_OutcomeReporting ==
    \A c \in UploadCalls :
        LET es == EntriesOf(c)
        IN /\ (Len(es) = 5 /\ \A i \in 1..5 : ~Failed(es[i])) =>
                  Emitted(c, "info", "Successfully uploaded %s to %s")
           /\ (\E i \in 1..Len(es) : StepFailed(es[i])) =>
                  /\ \E k \in 1..Len(diag) : diag[k].call = c /\ diag[k].level = "error"
                  /\ ~Emitted(c, "info", "Successfully uploaded %s to %s")

\* C3: an upload entered with a local path that does not exist issues no
\* SCP transfer and no remote command, reports the missing file and
\* returns.
C3_LocalMissingNoRemote ==
    \A c \in UploadCalls :
        (calls[c].argv # <<>> /\ calls[c].argv[1] \notin LocalFiles) =>
            /\ EntriesOf(c) = <<>>
            /\ Emitted(c, "error", "Local file %s does not exist")
            /\ calls[c].result = "True"

\* C3 witness: on a connected session, an upload of a missing local file
\* has returned.
C3_Witness ==
    /\ ssh.ssh_client # 0
    /\ \E c \in UploadCalls :
           /\ calls[c].argv # <<>>
           /\ calls[c].argv[1] = LocalMissing
           /\ calls[c].result = "True"

\* C4: strict order of upload_file.  The remote actions of an upload are a
\* prefix of transfer, mv, sed, chown, chmod (so none is issued twice and
\* nothing else is issued), every remote action issued while an upload runs
\* is one of them, and an upload of an existing file that returned with no
\* failed step issued all five.
C4_StrictOrder ==
    \A c \in UploadCalls :
        /\ IsPrefix(VerbsOf(c), UploadSequence)
        /\ (/\ calls[c].result = "True"
            /\ calls[c].argv[1] \in LocalFiles
            /\ \A i \in 1..Len(EntriesOf(c)) : ~Failed(EntriesOf(c)[i]))
               => VerbsOf(c) = UploadSequence

\* C4 witness: an upload has issued all five steps and each exited 0.
C4_Witness ==
    \E c \in UploadCalls :
        /\ calls[c].result = "True"
        /\ VerbsOf(c) = UploadSequence
        /\ \A i \in 1..5 : ~Failed(EntriesOf(c)[i])

\* All four connection parameters were given on the command line or in the
\* environment.
AllGiven ==
    /\ cli.name \notin {"", NoneStr}
    /\ cli.port # 0
    /\ cli.username \notin {"", NoneStr}
    /\ cli.password \notin {"", NoneStr}

Ended == pc \in {"exit0", "crashed"}

\* C5: the session is closed exactly once at process exit on every path of
\* main, also when an operation failed or raised an error in between.
\* Stated for the runs that opened a session and issued a remote action on
\* it: when such a run has ended, close() has reached the transport exactly
\* once.
C5_ClosedOnceAtExit ==
    (Ended /\ ssh.ssh_client # 0 /\ Len(remote) > 0) => Len(closes) = 1

\* C6: with valid connection parameters the transport's connect is invoked
\* exactly once over a run, and the client it produced is the one the
\* handle holds.
C6_AuthenticatedOnce ==
    (ssh.created /\ AllGiven) =>
        /\ Len(connects) = 1
        /\ ssh.ssh_client \in {0, 1}

\* C7: when one of the four connection parameters is empty or zero, no
\* connect is ever invoked on the transport, by the constructor or by a
\* later connect(), and the handle has no client and reports not-connected.
C7_NoConnectWhenInvalid ==
    (pc # "get_args" /\ ~AllGiven) =>
        /\ connects = <<>>
        /\ ssh.ssh_client = 0
        /\ ~is_connected(ssh, connects, closes)

\* C7 witness: a run with a missing parameter went through the constructor
\* and the later connect(), dispatched a command and returned from main.
C7_Witness ==
    /\ ~AllGiven
    /\ ssh.created
    /\ Len(calls) > 0
    /\ pc = "exit0"

\* C8: an operation dispatched against an unconnected handle fails
\* gracefully and the process does not crash, in one-shot mode as in
\* interactive mode: no run with an unconnected handle ends in the uncaught
\* error of using the missing client.
C8_UnconnectedGraceful ==
    (ssh.created /\ ssh.ssh_client = 0 /\ Len(calls) > 0
         /\ calls[Len(calls)].op \in {"check_sudo", "create_dir", "upload", "dir"})
        => ~(/\ pc = "crashed"
             /\ diag[Len(diag)].level = "traceback"
             /\ diag[Len(diag)].msg = "AttributeError")

\* C9: create_remote_directory is idempotent on an existing path.  When the
\* existence probe (sudo -S ls) exits 0 the invocation issues nothing else,
\* reports that the path already exists and returns; two invocations on the
\* same path whose probes exit 0 issue two probes and no creation command.
C9_IdempotentOnExisting ==
    /\ \A c \in CreateDirCalls :
           LET es == EntriesOf(c)
           IN Len(es) >= 1 =>
                  /\ Verb(es[1].cmd) = "sudo ls"
                  /\ ~Failed(es[1]) =>
                         /\ Len(es) = 1
                         /\ Emitted(c, "info", "Remote directory %s already exists")
                         /\ calls[c].result = "True"
    /\ \A c1, c2 \in CreateDirCalls :
           (/\ c1 < c2
            /\ calls[c1].argv = calls[c2].argv
            /\ Len(EntriesOf(c1)) >= 1 /\ ~Failed(EntriesOf(c1)[1])
            /\ Len(EntriesOf(c2)) >= 1 /\ ~Failed(EntriesOf(c2)[1]))
               => VerbsOf(c1) \o VerbsOf(c2) = <<"sudo ls", "sudo ls">>

\* C9 witness: two invocations on the same path, both probes exited 0, both
\* returned.
C9_Witness ==
    \E c1, c2 \in CreateDirCalls :
        /\ c1 < c2
        /\ calls[c1].argv = calls[c2].argv
        /\ calls[c1].result = "True" /\ calls[c2].result = "True"
        /\ ~Failed(EntriesOf(c1)[1])
        /\ ~Failed(EntriesOf(c2)[1])

\* C10: when the existence probe exits non-zero, create_remote_directory
\* issues after it exactly one creation command, mkdir -p under sudo with
\* the supplied credential piped in, for the path it was given, and returns
\* to its caller whether that command exits 0 or not.
C10_CreatesOnceWhenProbeFails ==
    \A c \in CreateDirCalls :
        LET es == EntriesOf(c)
        IN (Len(es) >= 1 /\ es[1].exc = "none" /\ es[1].status # 0) =>
               IF calls[c].result = "running"
               THEN Len(es) = 1 /\ pc = "mkdir"
               ELSE /\ Len(es) = 2
                    /\ Verb(es[1].cmd) = "sudo ls"
                    /\ Verb(es[2].cmd) = "mkdir"
                    /\ es[2].cmd[1] = "echo"
                    /\ es[2].cmd[2] = cli.password
                    /\ es[2].cmd[4] = "sudo"
                    /\ es[2].cmd[7] = "-p"
                    /\ es[2].cmd[8] = calls[c].argv[1]
                    /\ es[2].exc = "none" => calls[c].result = "True"

\* C10 witness: the probe exited non-zero, the creation command exited
\* non-zero too, and the invocation returned.
C10_Witness ==
    \E c \in CreateDirCalls :
        /\ Len(EntriesOf(c)) = 2
        /\ StepFailed(EntriesOf(c)[1])
        /\ StepFailed(EntriesOf(c)[2])
        /\ calls[c].result = "True"

CheckSudoCalls == {c \in 1..Len(calls) : calls[c].op = "check_sudo"}

\* C11: check_sudo_privileges issues exactly one remote command, sudo -l,
\* and when that command yields an exit status the function returns true if
\* the status is 0 and false otherwise; on a non-zero status the error
\* diagnostic carries the captured remote error text.
C11_SudoCheckResult ==
    \A c \in CheckSudoCalls :
        LET es == EntriesOf(c)
        IN /\ Len(es) <= 1
           /\ calls[c].result = "True" =>
                  /\ Len(es) = 1
                  /\ es[1].cmd = <<"sudo", "-l">>
                  /\ es[1].exc = "none"
                  /\ calls[c].value = "True" <=> es[1].status = 0
                  /\ calls[c].value = "False" <=> es[1].status # 0
                  /\ es[1].status # 0 <=>
                         Emitted(c, "error", "User does not have sudo privileges: %s")
                  /\ es[1].status = 0 <=> Emitted(c, "info", "User has sudo privileges")

\* C11 witness: a privilege check whose probe exited non-zero returned
\* false.
C11_Witness ==
    \E c \in CheckSudoCalls :
        /\ calls[c].result = "True"
        /\ calls[c].value = "False"
        /\ EntriesOf(c)[1].status # 0

\* C14: started with no subcommand and without the interactive flag, the
\* program prints the help text and returns normally; no session object is
\* created, no connection is attempted, nothing is closed and no command is
\* dispatched.
C14_HelpOnlyNoSession ==
    (pc \notin {"get_args", "main_448"} /\ Falsy(cli.command) /\ ~cli.interactive) =>
        /\ pc = "exit0"
        /\ ssh = NoSSH
        /\ connects = <<>>
        /\ closes = <<>>
        /\ calls = <<>>
        /\ remote = <<>>
        /\ Len(diag) = 1
        /\ diag[1].level = "print"
        /\ diag[1].msg = "help_text"

\* C14 witness: a run without subcommand and without the interactive flag
\* has returned.
C14_Witness ==
    /\ pc = "exit0"
    /\ Falsy(cli.command)
    /\ ~cli.interactive
    /\ Len(diag) = 1

\* The remote programs each operation may run.
VerbsFor(op) ==
    IF op = "check_sudo" THEN {"sudo -l"}
    ELSE IF op = "create_dir" THEN {"sudo ls", "mkdir"}
    ELSE IF op = "upload" THEN {"scp", "mv", "sed", "chown", "chmod"}
    ELSE IF op = "dir" THEN {"ls"}
    ELSE {}

\* C15: every execute_command invocation does one thing, selected by the
\* command name: one of the four operations (all its remote actions belong
\* to that operation), the help text, or the termination signal.  It
\* returns False exactly when the command name is exit and True otherwise;
\* an unrecognized name prints a diagnostic, issues no remote action and
\* returns True.
C15_DispatchOne ==
    \A c \in 1..Len(calls) :
        LET k == calls[c]
            es == EntriesOf(c)
        IN /\ k.command \in {"check_sudo", "create_dir", "upload", "dir"} => k.op = k.command
           /\ k.op \in {"check_sudo", "create_dir", "upload", "dir"} => k.op = k.command
           /\ k.op = "help" <=> k.command \in HelpWords
           /\ k.op = "exit" <=> k.command = "exit"
           /\ \A i \in 1..Len(es) : Verb(es[i].cmd) \in VerbsFor(k.op)
           /\ k.result = "False" <=> k.command = "exit"
           /\ k.result \in {"running", "raised"} =>
                  k.op \in {"check_sudo", "create_dir", "upload", "dir"}
           /\ Emitted(c, "print", "help_text") <=> k.op = "help"
           /\ Emitted(c, "print", "Unknown command. Type 'help' for available commands.")
                  <=> k.op = "unknown"
           /\ k.op = "exit" => \A i \in 1..Len(diag) : diag[i].call # c

\* C15 witness: one run dispatched an unrecognized name, which returned
\* True, and then the name exit, which returned False.
C15_Witness ==
    \E c, d \in 1..Len(calls) :
        /\ calls[c].op = "unknown"
        /\ calls[c].result = "True"
        /\ calls[d].command = "exit"
        /\ calls[d].result = "False"

DirCalls == {c \in 1..Len(calls) : calls[c].op = "dir"}

\* C16: list_directory issues exactly one remote command, the plain
\* long-format listing of the directory (no sudo, no password piped in).
\* When the command exits 0 the listing is logged as information, when it
\* exits non-zero the error text is logged as an error, and in both cases
\* the operation returns instead of raising.
C16_ListDirectory ==
    \A c \in DirCalls :
        LET k == calls[c]
            es == EntriesOf(c)
        IN /\ Len(es) <= 1
           /\ \A i \in 1..Len(es) : es[i].cmd = <<"ls", "-lh", k.argv[1]>>
           /\ (Len(es) = 1 /\ es[1].exc = "none") =>
                  /\ k.result = "True"
                  /\ es[1].status = 0 <=>
                         Emitted(c, "info", "Directory contents of %s:\n%s")
                  /\ es[1].status # 0 <=>
                         Emitted(c, "error", "Failed to list directory %s: %s")
           /\ k.result = "True" => (Len(es) = 1 /\ es[1].exc = "none")

\* C16 witness: a listing whose command exited non-zero has returned.
C16_Witness ==
    \E c \in DirCalls :
        /\ calls[c].result = "True"
        /\ Len(EntriesOf(c)) = 1
        /\ EntriesOf(c)[1].status # 0
        /\ Emitted(c, "error", "Failed to list directory %s: %s")

\* The statements of interactive_mode's loop and of what it calls.
LoopPcs ==
    {"prompt", "sel_file", "ask_remote_i", "exec", "line_304", "line_307", "line_308",
     "line_311", "check_sudo", "probe", "mkdir", "ls", "transfer", "mv", "sed", "chown",
     "chmod"}

ErrorPrints == {"Keyboard Interrupt. Type 'exit' to quit.", "Error: %s"}

\* C12: the interactive loop as a state machine.  Every step taken inside
\* the loop stays inside it or leaves it for the close at the end of main;
\* it is left only from awaiting input, on reading the line exit; and a
\* step in which an invocation ends by an exception, or in which the input
\* stream ends, prints a report and returns to awaiting input.
C12_LoopStateMachine ==
    [][(cli.interactive /\ pc \in LoopPcs) =>
          /\ pc' \in LoopPcs \cup {"main_460"}
          /\ pc' = "main_460" => (pc = "prompt" /\ cmd_input' = <<"exit">>)
          /\ (\/ (Running /\ calls'[Len(calls)].result = "raised")
              \/ stdin' # stdin) =>
                 /\ pc' = "prompt"
                 /\ Len(diag') = Len(diag) + 1
                 /\ diag'[Len(diag')].level = "print"
                 /\ diag'[Len(diag')].msg \in ErrorPrints]_vars

\* C12 witness: in interactive mode an invocation ended by an exception and
\* a later line was still read, dispatched and executed to its return.
C12_Witness ==
    /\ cli.interactive
    /\ \E c, d \in 1..Len(calls) :
         /\ c < d
         /\ calls[c].result = "raised"
         /\ calls[d].result = "True"
         /\ calls[d].op \in {"check_sudo", "create_dir", "upload", "dir"}

Shown(msg) == \E i \in 1..Len(prompted) : prompted[i] = msg

\* C13: for create_dir, dir and upload a missing positional argument is
\* asked for at a prompt, in one-shot and in interactive mode.  While a
\* prompt of the invocation is still to come no remote action of the
\* invocation has been issued; past the prompts the operation has been
\* entered with every argument bound, and each argument that was missing
\* has had its prompt shown.
C13_MissingArgsPrompted ==
    /\ pc \in {"sel_file", "ask_remote_i", "exec"} => ~Running
    /\ (cmd_input[1] = "upload" /\ pc \notin {"prompt", "sel_file", "ask_remote_i"}
            /\ Len(cmd_input) < 3) => Shown("Enter remote file path: ")
    /\ Running =>
         LET c == Len(calls)
             k == calls[c]
         IN k.op \in {"create_dir", "dir", "upload"} =>
              IF pc \in {"line_304", "line_311", "line_307", "line_308"}
              THEN EntriesOf(c) = <<>> /\ k.argv = <<>>
              ELSE /\ Len(k.argv) = (IF k.op = "upload" THEN 2 ELSE 1)
                   /\ \A i \in 1..Len(k.argv) : k.argv[i] # NONE
                   /\ (k.op # "upload" /\ FalsyPath(args.dir_path)) =>
                          Shown("Enter remote directory path: ")
                   /\ (k.op = "upload" /\ FalsyPath(args.local_path)) =>
                          Shown("Enter local file path: ")
                   /\ (k.op = "upload" /\ FalsyPath(args.remote_path)) =>
                          Shown("Enter remote file path: ")

\* C13 witness: a one-shot create_dir started without its directory has
\* asked for it and issued a remote command on the answer.
C13_Witness ==
    /\ ~cli.interactive
    /\ cli.command = "create_dir"
    /\ cli.dir_path = NONE
    /\ Running
    /\ calls[1].argv = <<RemoteDir>>
    /\ Shown("Enter remote directory path: ")
    /\ Len(EntriesOf(1)) > 0

\* C19: in interactive mode a line whose first token is exit and that has
\* further tokens is dispatched to execute_command with the command name
\* exit; that invocation returns False, and the loop goes back to awaiting
\* input with nothing closed.
C19_ExitSignalIgnored ==
    [][/\ (pc = "prompt" /\ Len(cmd_input') > 1 /\ cmd_input'[1] = "exit") =>
              (pc' = "exec" /\ args'.command = "exit")
       /\ (cli.interactive /\ pc = "exec" /\ args.command = "exit") =>
              /\ Len(cmd_input) > 1
              /\ Len(calls') = Len(calls) + 1
              /\ calls'[Len(calls')].result = "False"
              /\ pc' = "prompt"
              /\ closes' = closes]_vars

\* C19 witness: the loop is awaiting input again after an invocation that
\* returned False.
C19_Witness ==
    /\ cli.interactive
    /\ pc = "prompt"
    /\ reads < MaxInputs
    /\ \E c \in 1..Len(calls) : calls[c].command = "exit" /\ calls[c].result = "False"

\* C20: once the input stream of interactive mode has ended, every step is
\* a read that fails and is reported with the error print; control is back
\* at the prompt after it and the session has not been closed.
C20_EofNeverTerminates ==
    [][(cli.interactive /\ stdin' = "eof") =>
          /\ reads' = reads + 1 \/ stdin = "open"
          /\ pc' = "prompt"
          /\ closes' = <<>>
          /\ Len(diag') = Len(diag) + 1
          /\ diag'[Len(diag')].level = "print"
          /\ diag'[Len(diag')].msg = "Error: %s"]_vars

\* C20 witness: the stream has ended, two reads have failed since the loop
\* began, and the loop is at its prompt with the session still open.
C20_Witness ==
    /\ cli.interactive
    /\ stdin = "eof"
    /\ pc = "prompt"
    /\ reads >= 2
    /\ calls = <<>>
    /\ closes = <<>>
    /\ \E i, j \in 1..Len(diag) :
         i < j /\ diag[i].msg = "Error: %s" /\ diag[j].msg = "Error: %s"

\* The "SSH session closed" diagnostics emitted so far.
ClosedLogs == {i \in 1..Len(diag) : diag[i].msg = "SSH session closed"}

\* C17: close() is idempotent and safe on an object that never connected.
\* While no connect has succeeded, close() touches no transport and logs
\* nothing; and however often close() is called, no client is closed a
\* second time and the closing is logged once per client.
C17_CloseIdempotent ==
    /\ \A i \in 1..Len(api) : api[i].method = "close" => ~api[i].raised
    /\ (\A i \in 1..Len(connects) : ~connects[i].ok) =>
           (closes = <<>> /\ ClosedLogs = {})
    /\ \A i, j \in 1..Len(closes) : i # j => closes[i] # closes[j]
    /\ Cardinality(ClosedLogs) <= Cardinality({closes[i] : i \in 1..Len(closes)})

\* The runs that have entered upload_file.
EnteredRuns == {u \in Uploaders : up[u].pc # "idle"}

\* C18: the staging path of an upload depends only on the base name of its
\* local file, so concurrent uploads of files with one base name share it:
\* every run stages at /tmp/<basename>, two runs whose local files have
\* the same base name stage at the same path, and what a run's mv has
\* relocated to its final path is the file of some run staging there, not
\* necessarily its own.
C18_StagingShared ==
    /\ \A u \in EnteredRuns :
         up[u].temp_remote_path = <<"tmp", basename(up[u].local_file_path)>>
    /\ \A u, v \in EnteredRuns :
         basename(up[u].local_file_path) = basename(up[v].local_file_path) =>
             up[u].temp_remote_path = up[v].temp_remote_path
    /\ \A u \in EnteredRuns :
         up[u].moved # NONE =>
             \E v \in EnteredRuns :
                 /\ up[v].temp_remote_path = up[u].temp_remote_path
                 /\ up[v].local_file_path = up[u].moved
                 /\ up[v].pc \notin {"idle", "transfer"}

\* C18 witness: two runs uploading different local files with one base
\* name have interleaved so that one run's mv relocated the other run's
\* file to its own final path, and the other run's mv failed because the
\* staged file was gone.
C18_Witness ==
    \E u, v \in Uploaders :
        /\ u # v
        /\ up[u].local_file_path # up[v].local_file_path
        /\ up[u].remote_file_path # up[v].remote_file_path
        /\ up[u].moved = up[v].local_file_path
        /\ Holds(fs, up[u].remote_file_path) = up[v].local_file_path
        /\ up[v].pc = "done"
        /\ up[v].failed = "mv"
        /\ up[v].moved = NONE

=============================================================================
